---- MODULE Spec2Model ----
(***************************************************************************)
(* The translation pipeline of translator/base_translator.py               *)
(* (DocumentTranslator): the primary pass, the batch-retry tier, the       *)
(* line-by-line tier and the driver process().                             *)
(*                                                                         *)
(* A translated text is a record [kind, seg, n]: the segment (its unit     *)
(* ids) the invoker was called on, the number of lines of the text, and    *)
(* whether it parses ("ok"), does not parse ("malformed"), is empty/None   *)
(* ("empty"), or is the unbound local ("unbound").  A line of a text is    *)
(* the pair <<seg, i>>: texts returned for different segments differ.      *)
(***************************************************************************)
EXTENDS Naturals, Integers, Sequences, FiniteSets, TLC

\* ---------------------------------------------------------------- bounds
NumUnits == 3
MaxSegSize == 2
MaxLines == 5
MaxDirectCalls == 2

\* ------------------------------------------------------ program constants
\* for retry_count in range(2) / for retry in range(2)
MaxAttempts == 2
\* for _ in range(3)
MaxRounds == 3

\* ---------------------------------------------------------------- values
Max(a, b) == IF a >= b THEN a ELSE b
Min(a, b) == IF a <= b THEN a ELSE b

\* a unit's source text: <<unit id, has surrounding whitespace>>
Value(u, padded) == <<u, padded>>
\* str.strip()
Strip(v) == <<v[1], FALSE>>

Entry(c, v) == [count |-> c, value |-> v]
Counts(entries) == [i \in 1..Len(entries) |-> entries[i].count]
CountSet(entries) == {entries[i].count : i \in 1..Len(entries)}

Unbound == [kind |-> "unbound", seg |-> <<>>, n |-> 0]
NoneText == [kind |-> "none", seg |-> <<>>, n |-> 0]
\* translate_text's returns: a parseable text of n lines, an unparseable one, nothing
OkText(seg, n) == [kind |-> "ok", seg |-> Counts(seg), n |-> n]
MalformedText(seg) == [kind |-> "malformed", seg |-> Counts(seg), n |-> 1]
EmptyText(seg) == [kind |-> "empty", seg |-> Counts(seg), n |-> 0]
\* Python truthiness of a text: None and "" are falsy
Truthy(t) == t.kind \in {"ok", "malformed"}

\* clean_json(text).splitlines(): t.n is the number of lines of the cleaned
\* text (the line-by-line tier splits the stripped text instead)
Lines(t) == [i \in 1..t.n |-> <<t.seg, i>>]

\* s[-4:-1]
SliceM4(s) == SubSeq(s, Max(Len(s) - 4, 0) + 1, Len(s))
SliceM4M1(s) == SubSeq(s, Max(Len(s) - 4, 0) + 1, Max(Len(s) - 1, 0))
\* s[-3:]
SliceM3(s) == SubSeq(s, Max(Len(s) - 3, 0) + 1, Len(s))

\* load_prompt's previous_text_default: one line
previous_text_default == << <<(<<>>), 0>> >>

\* the outcomes of one attempt: the invoker raises, returns nothing, returns a
\* text that does not parse, or returns a text of n lines that parses
Outcomes == {[o |-> "raise", n |-> 0], [o |-> "empty", n |-> 0], [o |-> "malformed", n |-> 1]}
            \cup {[o |-> "ok", n |-> k] : k \in 1..MaxLines}

\* translate_text(segment, ...): the value bound to the local, Unbound-preserving
\* when the call raises
Returned(out, seg, old) ==
    CASE out.o = "raise" -> old
      [] out.o = "empty" -> EmptyText(seg)
      [] out.o = "malformed" -> MalformedText(seg)
      [] OTHER -> OkText(seg, out.n)

\* combined_previous_texts is only ever appended to and never read: it is kept
\* as its last element
EmptyLog == NoneText
LogAppend(log, t) == t

\* ------------------------------------------------------- the Failure Queue
AbsentFile == [kind |-> "absent", entries |-> <<>>]
CorruptFile == [kind |-> "corrupt", entries |-> <<>>]
ListFile(es) == [kind |-> "list", entries |-> es]

\* _mark_segment_as_failed: create if absent, load (unparsable: []), append
\* {count: int(count), value: value.strip()} for every unit, dump
MarkedEntries(segment) == [i \in 1..Len(segment) |->
                              Entry(segment[i].count, Strip(segment[i].value))]
MarkSegmentAsFailed(file, segment) ==
    ListFile((IF file.kind = "list" THEN file.entries ELSE <<>>) \o MarkedEntries(segment))

\* ------------------------------------------------------------------ state
VARIABLES
    pc,                      \* position in process / translate_content / the tiers
    caller,                  \* "process", or "direct" for a call of one tier alone
    stage,                   \* index of process()'s current stage
    src,                     \* the unit store: a sequence of {count, value}
    results,                 \* the results store: the recorded unit ids
    failedFile,              \* the Failure Queue file
    failed_status,           \* self.failed_status
    previous_text,           \* self.previous_text: the Context Window, as lines
    combined_previous_texts, \* the continuity log
    stream,                  \* what the segment generator has not yielded yet
    segment,                 \* the segment (or single-unit request) in hand
    retry_count,
    translated_text,
    last_valid_translated_text,
    has_translated_success,
    new_failed_segments,
    round,                   \* the batch-retry loop's iteration
    ret,                     \* retranslate_failed_content's return value
    missing_counts,          \* check_and_sort_translations()'s report, once made
    written,                 \* write_translated_json_to_file was invoked
    tf_result,               \* what translate_file returned to the UI
    h                        \* history of the run, read by the properties only

vars == <<pc, caller, stage, src, results, failedFile, failed_status, previous_text,
          combined_previous_texts, stream, segment, retry_count, translated_text,
          last_valid_translated_text, has_translated_success, new_failed_segments,
          round, ret, missing_counts, written, tf_result, h>>

Units == CountSet(src)
\* translate_file has not returned
NoResult == [visible |-> FALSE, message |-> "none", keys |-> {}]
\* the report before check_and_sort_translations has run: no unit id is negative
NotYet == {-1}

\* ------------------------------------------------------------ the history
\* tier: the tier running; attempts: translate_text calls on the segment in
\* hand; okAt: the attempt that succeeded on it (0: none); rfcCalls: calls of
\* retranslate_failed_content; everFalse: one of them returned False;
\* okPrimary, okRound1: units recorded by the primary pass and by the first
\* batch-retry round; primaryEnded: the primary loop ran to its end;
\* called: translate_text was called since the entry; entryFile, entryResults,
\* entryTier, directCalls: the direct call of one tier and what it started on;
\* order: the stages of process() in the order they were entered;
\* roundSnapshot: the units the batch-retry round in hand took from the queue
\* (none: it found no work); linesCalls: calls of _retranslate_failed_lines by
\* translate_content; linesAttempted: the units the line-by-line tier tried;
\* linesExhausted: those whose attempts all failed there; reports: calls of
\* progress_callback by the primary pass for the segment in hand;
\* reportedProgress: the fraction of the last of them, in units of the store
\* (-1: none); calls: per unit, the translate_text calls made for it by a run
\* of translate_content.
h0 == [tier |-> "none", attempts |-> 0, okAt |-> 0, rfcCalls |-> 0,
       everFalse |-> FALSE, okPrimary |-> {}, okRound1 |-> {},
       primaryEnded |-> FALSE, called |-> FALSE,
       entryFile |-> AbsentFile, entryResults |-> {}, entryTier |-> "none",
       directCalls |-> 0, order |-> <<>>,
       roundSnapshot |-> {}, linesCalls |-> 0, linesAttempted |-> {},
       linesExhausted |-> {}, reports |-> 0, reportedProgress |-> -1,
       calls |-> [u \in 1..NumUnits |-> 0]]

\* ---------------------------------------------------------------- process
\* process(): _clear_temp_folder, extract_content_to_json, translate_content,
\* check_and_sort_translations, write_translated_json_to_file, return
ProcessStagesWriteFirst == <<"clear", "extract", "translate", "write", "check", "return">>
ProcessStagesCheckFirst == <<"clear", "extract", "check", "translate", "write", "return">>
ProcessStages == <<"clear", "extract", "translate", "check", "write", "return">>

Documents == {[i \in 1..n |-> Entry(i, Value(i, i \in P))] :
                 n \in 0..NumUnits, P \in {{}, {1}}}

\* the Failure Queue files a tier can be called on: absent, unparsable, or the
\* stripped entries of some units in the order of the unit store
RECURSIVE EntriesOf(_, _)
EntriesOf(store, S) ==
    IF store = <<>> THEN <<>>
    ELSE (IF Head(store).count \in S
            THEN <<Entry(Head(store).count, Strip(Head(store).value))>> ELSE <<>>)
         \o EntriesOf(Tail(store), S)
QueueFiles(store) == {AbsentFile, CorruptFile}
                     \cup {ListFile(EntriesOf(store, S)) : S \in SUBSET CountSet(store)}

\* process() is called on a document (what an earlier run left in temp/ is
\* still there), or one recovery tier is called alone on a workspace
Init ==
    /\ src \in Documents
    /\ \/ /\ caller = "process"
          /\ pc = "process"
          /\ results = {}
          /\ failedFile \in {AbsentFile, CorruptFile}
          /\ h = h0
       \/ /\ caller = "direct"
          /\ Len(src) = NumUnits
          /\ pc \in {"rfc_entry", "lines_entry"}
          /\ failedFile \in QueueFiles(src)
          /\ results \in SUBSET (CountSet(src) \ CountSet(failedFile.entries))
          /\ h = [h0 EXCEPT !.entryFile = failedFile, !.entryResults = results,
                            !.entryTier = pc, !.directCalls = 1,
                            !.tier = IF pc = "rfc_entry" THEN "batch" ELSE "lines"]
    /\ stage = 1
    /\ failed_status = TRUE
    /\ previous_text = previous_text_default
    /\ combined_previous_texts = EmptyLog
    /\ stream = <<>>
    /\ segment = <<>>
    /\ retry_count = 0
    /\ translated_text = Unbound
    /\ last_valid_translated_text = NoneText
    /\ has_translated_success = FALSE
    /\ new_failed_segments = <<>>
    /\ round = 0
    /\ ret = FALSE
    /\ missing_counts = NotYet
    /\ written = FALSE
    /\ tf_result = NoResult

AtStage(name) == pc = "process" /\ ProcessStages[stage] = name

\* the stage is entered in the history's order of stages
Staged(name) == [h EXCEPT !.order = Append(@, name)]

tcLocals == <<combined_previous_texts, stream, segment, retry_count, translated_text,
              last_valid_translated_text, has_translated_success,
              new_failed_segments, round, ret>>

\* shutil.rmtree("temp"); os.makedirs("temp")
ClearTempFolder ==
    /\ AtStage("clear")
    /\ failedFile' = AbsentFile
    /\ results' = {}
    /\ stage' = stage + 1
    /\ UNCHANGED <<pc, caller, src, failed_status, previous_text, tcLocals,
                   missing_counts, written, tf_result>>
    /\ h' = Staged("clear")

ExtractContentToJson ==
    /\ AtStage("extract")
    /\ stage' = stage + 1
    /\ UNCHANGED <<pc, caller, src, results, failedFile, failed_status, previous_text,
                   tcLocals, missing_counts, written, tf_result>>
    /\ h' = Staged("extract")

CallTranslateContent ==
    /\ AtStage("translate")
    /\ pc' = "tc_entry"
    /\ UNCHANGED <<caller, stage, src, results, failedFile, failed_status,
                   previous_text, tcLocals, missing_counts, written, tf_result>>
    /\ h' = Staged("translate")

\* check_and_sort_translations(): the units of the unit store with no result
CheckAndSortTranslations ==
    /\ AtStage("check")
    /\ missing_counts' = Units \ results
    /\ stage' = stage + 1
    /\ UNCHANGED <<pc, caller, src, results, failedFile, failed_status, previous_text,
                   tcLocals, written, tf_result>>
    /\ h' = Staged("check")

WriteTranslatedJsonToFile ==
    /\ AtStage("write")
    /\ written' = TRUE
    /\ stage' = stage + 1
    /\ UNCHANGED <<pc, caller, src, results, failedFile, failed_status, previous_text,
                   tcLocals, missing_counts, tf_result>>
    /\ h' = Staged("write")

ProcessReturn ==
    /\ AtStage("return")
    /\ pc' = "done"
    /\ UNCHANGED <<caller, stage, src, results, failedFile, failed_status,
                   previous_text, tcLocals, missing_counts, written, tf_result, h>>

\* ------------------------------------------------- translate_file (app.py)
\* lines 65-74: process() returned; the file is shown, with a warning that
\* lists the missing keys when the report is not empty
TranslateFileReturn ==
    /\ pc = "done"
    /\ caller = "process"
    /\ pc' = "tf_returned"
    /\ tf_result' = IF missing_counts # {}
                      THEN [visible |-> TRUE, message |-> "warning", keys |-> missing_counts]
                      ELSE [visible |-> TRUE, message |-> "complete", keys |-> {}]
    /\ UNCHANGED <<caller, stage, src, results, failedFile, failed_status,
                   previous_text, tcLocals, missing_counts, written, h>>

\* lines 75-78: process() raised; no file is shown, the message is the error
TranslateFileExcept ==
    /\ pc = "raised"
    /\ caller = "process"
    /\ pc' = "tf_returned"
    /\ tf_result' = [visible |-> FALSE, message |-> "error", keys |-> {}]
    /\ UNCHANGED <<caller, stage, src, results, failedFile, failed_status,
                   previous_text, tcLocals, missing_counts, written, h>>

\* ------------------------------------------------------ translate_content
env == <<caller, stage, src, missing_counts, written, tf_result>>

\* stream_segment_json(path, max_token, ...): the generator over the store's
\* units, None when the store holds none; the store is read at this call
StreamSegmentJson(store) == store
StreamIsNone(store) == store = <<>>

\* the progress fraction yielded with a segment: the units of the store up to
\* the segment's last, out of Len(store); rest is what the stream still holds
SegmentProgress(store, rest) == Len(store) - Len(rest)

\* the sizes the next token-bounded segment of a stream can have
SegmentSizes(s) == 1..Min(MaxSegSize, Len(s))

\* process_translation_results(segment, text): the units of a text that parses
\* are recorded; True when at least one of them is new
Recorded(res, seg) == res \cup CountSet(seg)
RecordYieldsNew(res, seg) == CountSet(seg) \ res # {}

\* lines 74-79: the Context Window after a success of the primary pass
PrimaryContext(lines) ==
    IF Len(lines) >= 4 THEN SliceM4M1(lines) ELSE previous_text_default

\* lines 166-167: the Context Window after a success of a batch-retry round
BatchContext(lines) == SliceM4M1(lines)

\* lines 227-231: the Context Window after a success of the line-by-line tier
LineContext(lines) ==
    IF Len(lines) >= 3 THEN SliceM3(lines) ELSE previous_text_default

\* lines 60-69: the attempt succeeds when translate_text returned a text that
\* is not empty (line 65) and process_translation_results took it
AttemptSucceedsEmpty(out) == out.o \in {"ok", "empty"}
AttemptSucceedsMalformed(out) == out.o \in {"ok", "malformed"}
AttemptSucceeds(out) == out.o = "ok"

\* line 88: the attempt whose failure marks the segment as failed
MarksAsFailedEveryAttempt(rc) == TRUE
MarksAsFailed(rc) == rc = 1

\* for retry_count in range(2): another attempt follows a failed one
RetryAgainAlways(rc) == TRUE
RetryAgain(rc) == rc + 1 < MaxAttempts

\* lines 60, 151, 213: one translate_text call on the segment, counted for each
\* of its units when translate_content runs
CallsAfter(c, seg) ==
    IF caller = "process"
      THEN [u \in DOMAIN c |-> IF u \in CountSet(seg) THEN c[u] + 1 ELSE c[u]]
      ELSE c

\* the break after a successful attempt (lines 82, 169, 233)
BreaksOnSuccessMissing == FALSE
BreaksOnSuccess == TRUE

\* lines 102-104: another batch-retry round is started
BatchLoopContinuesNoBreak(r, status) == r < MaxRounds
BatchLoopContinues(r, status) == r < MaxRounds /\ status

\* lines 141-144: the queue file after the snapshot has been taken
QueueAfterSnapshotKept(file) == file
QueueAfterSnapshot(file) == ListFile(<<>>)

\* lines 38-53
TcEntry ==
    /\ pc = "tc_entry"
    /\ IF StreamIsNone(src)
         THEN /\ pc' = "tc_return"
              /\ UNCHANGED <<stream, combined_previous_texts, translated_text, h>>
         ELSE /\ pc' = "primary_next"
              /\ stream' = StreamSegmentJson(src)
              /\ combined_previous_texts' = EmptyLog
              /\ translated_text' = Unbound
              /\ h' = [h EXCEPT !.tier = "primary"]
    /\ UNCHANGED <<env, results, failedFile, failed_status, previous_text, segment,
                   retry_count, last_valid_translated_text, has_translated_success,
                   new_failed_segments, round, ret>>

\* line 55-56: the generator yields the next segment, or is exhausted
PrimaryNext ==
    /\ pc = "primary_next"
    /\ IF stream = <<>>
         THEN /\ pc' = "batch_loop"
              /\ round' = 0
              /\ h' = [h EXCEPT !.primaryEnded = TRUE]
              /\ UNCHANGED <<stream, segment, retry_count, last_valid_translated_text>>
         ELSE \E k \in SegmentSizes(stream) :
              /\ segment' = SubSeq(stream, 1, k)
              /\ stream' = SubSeq(stream, k + 1, Len(stream))
              /\ last_valid_translated_text' = NoneText
              /\ retry_count' = 0
              /\ pc' = "primary_try"
              /\ h' = [h EXCEPT !.attempts = 0, !.okAt = 0, !.reports = 0]
              /\ UNCHANGED round
    /\ UNCHANGED <<env, results, failedFile, failed_status, previous_text,
                   combined_previous_texts, translated_text, has_translated_success,
                   new_failed_segments, ret>>

\* lines 58-95: one attempt on the segment, with its except clause and, after
\* the last attempt, the loop's else clause
PrimaryTry ==
    /\ pc = "primary_try"
    /\ \E out \in Outcomes :
         LET tt == Returned(out, segment, translated_text) IN
         IF AttemptSucceeds(out)
           THEN /\ translated_text' = tt
                /\ results' = Recorded(results, segment)
                /\ previous_text' = PrimaryContext(Lines(tt))
                /\ combined_previous_texts' = LogAppend(combined_previous_texts, tt)
                /\ IF BreaksOnSuccess
                     THEN pc' = "primary_progress" /\ UNCHANGED retry_count
                     ELSE IF RetryAgain(retry_count)
                            THEN pc' = "primary_try" /\ retry_count' = retry_count + 1
                            ELSE pc' = "primary_progress" /\ UNCHANGED retry_count
                /\ h' = [h EXCEPT !.attempts = @ + 1, !.calls = CallsAfter(@, segment), !.okAt = h.attempts + 1,
                                  !.okPrimary = @ \cup CountSet(segment),
                                  !.called = TRUE]
                /\ UNCHANGED <<failedFile, last_valid_translated_text>>
           ELSE IF tt = Unbound
                  THEN \* except clause reads the unbound local: UnboundLocalError
                       /\ pc' = "raised"
                       /\ h' = [h EXCEPT !.attempts = @ + 1, !.calls = CallsAfter(@, segment), !.called = TRUE]
                       /\ UNCHANGED <<translated_text, results, previous_text,
                                      combined_previous_texts, failedFile,
                                      last_valid_translated_text, retry_count>>
                  ELSE /\ translated_text' = tt
                       /\ last_valid_translated_text' = tt
                       /\ failedFile' = IF MarksAsFailed(retry_count)
                                          THEN MarkSegmentAsFailed(failedFile, segment)
                                          ELSE failedFile
                       /\ IF RetryAgain(retry_count)
                            THEN /\ retry_count' = retry_count + 1
                                 /\ pc' = "primary_try"
                                 /\ UNCHANGED combined_previous_texts
                            ELSE /\ combined_previous_texts' =
                                        IF Truthy(tt)
                                          THEN LogAppend(combined_previous_texts, tt)
                                          ELSE combined_previous_texts
                                 /\ pc' = "primary_progress"
                                 /\ UNCHANGED retry_count
                       /\ h' = [h EXCEPT !.attempts = @ + 1, !.calls = CallsAfter(@, segment), !.called = TRUE]
                       /\ UNCHANGED <<results, previous_text>>
    /\ UNCHANGED <<env, failed_status, stream, segment, has_translated_success,
                   new_failed_segments, round, ret>>

\* lines 97-99: progress_callback(segment_progress, ...)
PrimaryProgress ==
    /\ pc = "primary_progress"
    /\ pc' = "primary_next"
    /\ h' = [h EXCEPT !.reports = @ + 1,
                      !.reportedProgress = SegmentProgress(src, stream)]
    /\ UNCHANGED <<env, results, failedFile, failed_status, previous_text, tcLocals>>

\* lines 102-105: for _ in range(3): if not self.failed_status: break; call
BatchLoop ==
    /\ pc = "batch_loop"
    /\ IF BatchLoopContinues(round, failed_status)
         THEN /\ pc' = "rfc_entry"
              /\ h' = [h EXCEPT !.rfcCalls = @ + 1, !.tier = "batch"]
         ELSE /\ pc' = "line_check"
              /\ UNCHANGED h
    /\ UNCHANGED <<env, results, failedFile, failed_status, previous_text, tcLocals>>

\* line 105: self.failed_status = <the value returned>
RfcReturn ==
    /\ pc = "rfc_return"
    /\ IF caller = "process"
         THEN /\ failed_status' = ret
              /\ round' = round + 1
              /\ pc' = "batch_loop"
         ELSE /\ pc' = "returned"
              /\ UNCHANGED <<failed_status, round>>
    /\ h' = [h EXCEPT !.everFalse = @ \/ ~ret]
    /\ UNCHANGED <<env, results, failedFile, previous_text, combined_previous_texts,
                   stream, segment, retry_count, translated_text,
                   last_valid_translated_text, has_translated_success,
                   new_failed_segments, ret>>

\* lines 108-110
LineCheck ==
    /\ pc = "line_check"
    /\ IF failed_status
         THEN pc' = "lines_entry" /\ h' = [h EXCEPT !.tier = "lines", !.linesCalls = @ + 1]
         ELSE pc' = "tc_return" /\ UNCHANGED h
    /\ UNCHANGED <<env, results, failedFile, failed_status, previous_text, tcLocals>>

\* translate_content returns to process()
TcReturn ==
    /\ pc = "tc_return"
    /\ pc' = "process"
    /\ stage' = stage + 1
    /\ UNCHANGED <<caller, src, results, failedFile, failed_status, previous_text,
                   tcLocals, missing_counts, written, tf_result, h>>

\* ---------------------------------------------- retranslate_failed_content
\* lines 114-127: absent file, empty list and unparsable content are no work
RfcEntryResultNoExcept(file) ==
    CASE file.kind = "absent" -> "no_work"
      [] file.kind = "corrupt" -> "raise"
      [] file.entries = <<>> -> "no_work"
      [] OTHER -> "run"
RfcEntryResultNoExists(file) ==
    CASE file.kind = "absent" -> "raise"
      [] file.kind = "corrupt" -> "no_work"
      [] file.entries = <<>> -> "no_work"
      [] OTHER -> "run"
RfcEntryResult(file) ==
    CASE file.kind = "absent" -> "no_work"
      [] file.kind = "corrupt" -> "no_work"
      [] file.entries = <<>> -> "no_work"
      [] OTHER -> "run"

\* lines 112-146
RfcEntry ==
    /\ pc = "rfc_entry"
    /\ translated_text' = Unbound
    /\ has_translated_success' = FALSE
    /\ CASE RfcEntryResult(failedFile) = "no_work" ->
              /\ ret' = FALSE
              /\ pc' = "rfc_return"
              /\ UNCHANGED <<stream, failedFile>>
         [] RfcEntryResult(failedFile) = "raise" ->
              /\ pc' = "raised"
              /\ UNCHANGED <<stream, failedFile, ret>>
         [] OTHER ->
              IF StreamIsNone(failedFile.entries)
                THEN /\ ret' = FALSE
                     /\ pc' = "rfc_return"
                     /\ UNCHANGED <<stream, failedFile>>
                ELSE /\ stream' = StreamSegmentJson(failedFile.entries)
                     /\ failedFile' = QueueAfterSnapshot(failedFile)
                     /\ pc' = "rfc_next"
                     /\ UNCHANGED ret
    /\ h' = [h EXCEPT !.roundSnapshot =
                 IF RfcEntryResult(failedFile) = "run" /\ ~StreamIsNone(failedFile.entries)
                   THEN CountSet(failedFile.entries) ELSE {}]
    /\ UNCHANGED <<env, results, failed_status, previous_text, combined_previous_texts,
                   segment, retry_count, last_valid_translated_text,
                   new_failed_segments, round>>

\* lines 147-148 and 183
RfcNext ==
    /\ pc = "rfc_next"
    /\ IF stream = <<>>
         THEN /\ ret' = has_translated_success
              /\ pc' = "rfc_return"
              /\ UNCHANGED <<stream, segment, retry_count, last_valid_translated_text, h>>
         ELSE \E k \in SegmentSizes(stream) :
              /\ segment' = SubSeq(stream, 1, k)
              /\ stream' = SubSeq(stream, k + 1, Len(stream))
              /\ last_valid_translated_text' = NoneText
              /\ retry_count' = 0
              /\ pc' = "rfc_try"
              /\ h' = [h EXCEPT !.attempts = 0, !.okAt = 0]
              /\ UNCHANGED ret
    /\ UNCHANGED <<env, results, failedFile, failed_status, previous_text,
                   combined_previous_texts, translated_text, has_translated_success,
                   new_failed_segments, round>>

\* lines 149-178
RfcTry ==
    /\ pc = "rfc_try"
    /\ \E out \in Outcomes :
         LET tt == Returned(out, segment, translated_text) IN
         IF AttemptSucceeds(out)
           THEN /\ translated_text' = tt
                /\ results' = Recorded(results, segment)
                /\ has_translated_success' =
                       (has_translated_success \/ RecordYieldsNew(results, segment))
                /\ previous_text' = BatchContext(Lines(tt))
                /\ combined_previous_texts' = LogAppend(combined_previous_texts, tt)
                /\ IF BreaksOnSuccess
                     THEN pc' = "rfc_progress" /\ UNCHANGED retry_count
                     ELSE IF RetryAgain(retry_count)
                            THEN pc' = "rfc_try" /\ retry_count' = retry_count + 1
                            ELSE pc' = "rfc_progress" /\ UNCHANGED retry_count
                /\ h' = [h EXCEPT !.attempts = @ + 1, !.calls = CallsAfter(@, segment), !.okAt = h.attempts + 1,
                                  !.okRound1 = IF h.rfcCalls = 1
                                                 THEN @ \cup CountSet(segment) ELSE @,
                                  !.called = TRUE]
                /\ UNCHANGED last_valid_translated_text
           ELSE IF tt = Unbound
                  THEN \* except clause reads the unbound local: UnboundLocalError
                       /\ pc' = "raised"
                       /\ h' = [h EXCEPT !.attempts = @ + 1, !.calls = CallsAfter(@, segment), !.called = TRUE]
                       /\ UNCHANGED <<translated_text, results, previous_text,
                                      combined_previous_texts, has_translated_success,
                                      last_valid_translated_text, retry_count>>
                  ELSE /\ translated_text' = tt
                       /\ last_valid_translated_text' = tt
                       /\ IF RetryAgain(retry_count)
                            THEN /\ retry_count' = retry_count + 1
                                 /\ pc' = "rfc_try"
                                 /\ UNCHANGED combined_previous_texts
                            ELSE /\ combined_previous_texts' =
                                        IF Truthy(tt)
                                          THEN LogAppend(combined_previous_texts, tt)
                                          ELSE combined_previous_texts
                                 /\ pc' = "rfc_progress"
                                 /\ UNCHANGED retry_count
                       /\ h' = [h EXCEPT !.attempts = @ + 1, !.calls = CallsAfter(@, segment), !.called = TRUE]
                       /\ UNCHANGED <<results, previous_text, has_translated_success>>
    /\ UNCHANGED <<env, failedFile, failed_status, stream, segment,
                   new_failed_segments, round, ret>>

\* lines 180-182
RfcProgress ==
    /\ pc = "rfc_progress"
    /\ pc' = "rfc_next"
    /\ UNCHANGED <<env, results, failedFile, failed_status, previous_text, tcLocals, h>>

\* ------------------------------------------------ _retranslate_failed_lines
\* lines 190-200: absent file, unreadable content and empty list return at once
LinesEntryResult(file) ==
    CASE file.kind = "absent" -> "no_work"
      [] file.kind = "corrupt" -> "no_work"
      [] file.entries = <<>> -> "no_work"
      [] OTHER -> "run"

\* lines 247-252: the queue file when the entries have all been tried
FinalLinesQueueNotWritten(newf, file) == file
FinalLinesQueue(newf, file) == IF newf # <<>> THEN ListFile(newf) ELSE file

\* the function returns: to translate_content, or to the direct caller
LinesReturnTo == IF caller = "process" THEN "tc_return" ELSE "returned"

\* lines 185-204
LinesEntry ==
    /\ pc = "lines_entry"
    /\ CASE LinesEntryResult(failedFile) = "no_work" ->
              /\ pc' = LinesReturnTo
              /\ UNCHANGED <<stream, failedFile, new_failed_segments>>
         [] LinesEntryResult(failedFile) = "raise" ->
              /\ pc' = "raised"
              /\ UNCHANGED <<stream, failedFile, new_failed_segments>>
         [] OTHER ->
              /\ stream' = failedFile.entries
              /\ failedFile' = ListFile(<<>>)
              /\ new_failed_segments' = <<>>
              /\ pc' = "lines_next"
    /\ UNCHANGED <<env, results, failed_status, previous_text, combined_previous_texts,
                   segment, retry_count, translated_text, last_valid_translated_text,
                   has_translated_success, round, ret, h>>

\* lines 206-210 and 247-252
LinesNext ==
    /\ pc = "lines_next"
    /\ IF stream = <<>>
         THEN /\ failedFile' = FinalLinesQueue(new_failed_segments, failedFile)
              /\ pc' = LinesReturnTo
              /\ UNCHANGED <<stream, segment, retry_count, last_valid_translated_text, h>>
         ELSE /\ segment' = <<Head(stream)>>
              /\ stream' = Tail(stream)
              /\ last_valid_translated_text' = NoneText
              /\ retry_count' = 0
              /\ pc' = "lines_try"
              /\ h' = [h EXCEPT !.attempts = 0, !.okAt = 0,
                                !.linesAttempted = @ \cup {Head(stream).count}]
              /\ UNCHANGED failedFile
    /\ UNCHANGED <<env, results, failed_status, previous_text, combined_previous_texts,
                   translated_text, has_translated_success, new_failed_segments,
                   round, ret>>

\* lines 211-244
LinesTry ==
    /\ pc = "lines_try"
    /\ \E out \in Outcomes :
         LET tt == Returned(out, segment, translated_text) IN
         IF AttemptSucceeds(out)
           THEN /\ translated_text' = tt
                /\ results' = Recorded(results, segment)
                /\ last_valid_translated_text' = tt
                /\ previous_text' = LineContext(Lines(tt))
                /\ IF BreaksOnSuccess
                     THEN pc' = "lines_progress" /\ UNCHANGED retry_count
                     ELSE IF RetryAgain(retry_count)
                            THEN pc' = "lines_try" /\ retry_count' = retry_count + 1
                            ELSE pc' = "lines_progress" /\ UNCHANGED retry_count
                /\ h' = [h EXCEPT !.attempts = @ + 1, !.calls = CallsAfter(@, segment), !.okAt = h.attempts + 1,
                                  !.called = TRUE]
                /\ UNCHANGED new_failed_segments
           ELSE /\ translated_text' = tt
                /\ IF RetryAgain(retry_count)
                     THEN /\ retry_count' = retry_count + 1
                          /\ pc' = "lines_try"
                          /\ UNCHANGED new_failed_segments
                     ELSE /\ new_failed_segments' =
                                 IF Truthy(last_valid_translated_text)
                                   THEN new_failed_segments
                                   ELSE Append(new_failed_segments,
                                               Entry(segment[1].count, segment[1].value))
                          /\ pc' = "lines_progress"
                          /\ UNCHANGED retry_count
                /\ h' = [h EXCEPT !.attempts = @ + 1, !.calls = CallsAfter(@, segment), !.called = TRUE,
                                  !.linesExhausted = IF RetryAgain(retry_count) THEN @
                                                     ELSE @ \cup {segment[1].count}]
                /\ UNCHANGED <<results, previous_text, last_valid_translated_text>>
    /\ UNCHANGED <<env, failedFile, failed_status, combined_previous_texts, stream,
                   segment, has_translated_success, round, ret>>

\* lines 245-246
LinesProgress ==
    /\ pc = "lines_progress"
    /\ pc' = "lines_next"
    /\ UNCHANGED <<env, results, failedFile, failed_status, previous_text, tcLocals, h>>

\* ------------------------------------------------------------ direct calls
\* a tier called alone has returned; it is called again on what it left
DirectCall ==
    /\ pc = "returned"
    /\ h.directCalls < MaxDirectCalls
    /\ \E t \in {"rfc_entry", "lines_entry"} :
         /\ pc' = t
         /\ h' = [h EXCEPT !.entryFile = failedFile, !.entryResults = results,
                           !.entryTier = t, !.directCalls = @ + 1, !.called = FALSE,
                           !.roundSnapshot = {}, !.linesAttempted = {},
                           !.linesExhausted = {},
                           !.tier = IF t = "rfc_entry" THEN "batch" ELSE "lines"]
    /\ UNCHANGED <<env, results, failedFile, failed_status, previous_text, tcLocals>>

\* ---------------------------------------------------------- specifications
Next ==
    \/ DirectCall
    \/ ClearTempFolder \/ ExtractContentToJson \/ CallTranslateContent
    \/ CheckAndSortTranslations \/ WriteTranslatedJsonToFile \/ ProcessReturn
    \/ TcEntry \/ PrimaryNext \/ PrimaryTry \/ PrimaryProgress
    \/ BatchLoop \/ RfcEntry \/ RfcNext \/ RfcTry \/ RfcProgress \/ RfcReturn
    \/ LineCheck \/ LinesEntry \/ LinesNext \/ LinesTry \/ LinesProgress
    \/ TcReturn
    \/ TranslateFileReturn \/ TranslateFileExcept

Spec == Init /\ [][Next]_vars

\* the pipeline is one synchronous thread (no cancellation, every call of the
\* invoker returns or fails): a step that can be taken is taken
FairSpec == Spec /\ WF_vars(Next)

\* ------------------------------------------------------------- properties
InProcess == caller = "process"
QueueCount(u) == Cardinality({i \in 1..Len(failedFile.entries) :
                                 failedFile.entries[i].count = u})
SourceValue(u) == (CHOOSE i \in 1..Len(src) : src[i].count = u)
OriginalEntry(u) == Entry(u, src[SourceValue(u)].value)
EmptyQueue == ListFile(<<>>)
EmptyOrAbsent(f) == f = AbsentFile \/ f = EmptyQueue
AfterAttempts == {"primary_progress", "rfc_progress", "lines_progress"}

\* C1: after a full run of process(), every unit of the document is in exactly
\* one of: the recorded results, the missing-unit report.
C1_Coverage ==
    (InProcess /\ pc = "done") =>
        \A u \in Units : (u \in results) # (u \in missing_counts)

C1_Witness ==
    /\ InProcess /\ pc = "done"
    /\ \E u \in Units : u \in results /\ u \notin missing_counts
    /\ \E u \in Units : u \notin results /\ u \in missing_counts

\* C2: when the primary pass ends (the segment stream is exhausted, no
\* batch-retry round has started), every unit is either recorded or in the
\* Failure Queue exactly once: never in neither, never twice in the queue.
C2_PrimaryPassEnd ==
    (InProcess /\ h.primaryEnded /\ pc = "batch_loop" /\ round = 0) =>
        \A u \in Units :
            /\ QueueCount(u) <= 1
            /\ (u \in results) # (QueueCount(u) = 1)

C2_Witness ==
    /\ InProcess /\ h.primaryEnded /\ pc = "batch_loop" /\ round = 0
    /\ \E u \in Units : u \in results
    /\ \E u \in Units : QueueCount(u) = 1

\* C3: a unit whose every translation attempt failed, in every tier, is in the
\* persisted Failure Queue file as {count: its id, value: its original source
\* text} and in the missing-unit report when the run has ended.
C3_PermanentFailure ==
    (InProcess /\ pc = "done") =>
        \A u \in Units \ results :
            /\ \E i \in 1..Len(failedFile.entries) :
                   failedFile.entries[i] = OriginalEntry(u)
            /\ u \in missing_counts

\* C4: when every unit is recorded by the primary pass or by the first
\* batch-retry round, and the first round did recover some, the run does not
\* raise and ends with an empty Failure Queue, an empty missing-unit report and
\* failed_status = false.
RoundTripScenario ==
    /\ InProcess
    /\ h.okRound1 # {}
    /\ h.okPrimary \cup h.okRound1 = Units

C4_RoundTrip ==
    RoundTripScenario =>
        /\ pc # "raised"
        /\ pc = "done" => /\ failedFile = EmptyQueue
                          /\ missing_counts = {}
                          /\ failed_status = FALSE

C4_Witness ==
    /\ RoundTripScenario
    /\ pc = "done"
    /\ h.okPrimary # {}

\* C5: retranslate_failed_content is invoked at most 3 times in a run, and no
\* invocation is started once an earlier one has returned false.
C5_TierCap ==
    /\ [](h.rfcCalls <= 3)
    /\ [][h'.rfcCalls # h.rfcCalls => (h.rfcCalls < 3 /\ ~h.everFalse)]_vars

C5_Witness ==
    /\ InProcess /\ pc = "done"
    /\ h.rfcCalls = 2
    /\ h.everFalse

\* C6: the invoker is called at most 2 times on one segment (or single-unit
\* request) within a tier, and not again on it after a successful attempt.
C6_BoundedRetry ==
    /\ h.attempts <= 2
    /\ h.okAt # 0 => h.attempts = h.okAt

C6_Witness ==
    /\ pc = "lines_progress"
    /\ h.attempts = 2
    /\ h.okAt = 0

\* C7: in every tier, after a successful translation call the Context Window
\* is lines [-4:-1] of the output when it has at least 4 lines, and the
\* language-pair default otherwise.
C7_ContextDerivation ==
    (pc \in AfterAttempts /\ h.okAt # 0) =>
        previous_text = IF Len(Lines(translated_text)) >= 4
                          THEN SliceM4M1(Lines(translated_text))
                          ELSE previous_text_default

\* C8: translate_content never terminates with an exception because a
\* translation call failed.
C8_ErrorContainment == InProcess => pc # "raised"

\* C9: called on a Failure Queue file that does not parse,
\* retranslate_failed_content returns false without raising, calls the invoker
\* never, and leaves the results store and the file as they were.
CorruptCall ==
    /\ caller = "direct"
    /\ h.entryTier = "rfc_entry"
    /\ h.entryFile = CorruptFile
    /\ pc # "rfc_entry"

C9_CorruptQueue ==
    CorruptCall =>
        /\ pc \in {"rfc_return", "returned"}
        /\ ret = FALSE
        /\ ~h.called
        /\ results = h.entryResults
        /\ failedFile = CorruptFile

C9_Witness ==
    /\ CorruptCall
    /\ pc = "returned"
    /\ results # {}

\* C10: called on an absent or empty Failure Queue, each recovery tier returns
\* without raising and without a translation call, leaves the queue absent or
\* empty as it was and the results as they were (the batch tier returning
\* false); called again, it does the same.
EmptyCall ==
    /\ caller = "direct"
    /\ EmptyOrAbsent(h.entryFile)
    /\ pc \notin {"rfc_entry", "lines_entry"}

C10_QueueIdempotence ==
    EmptyCall =>
        /\ pc \in {"rfc_return", "returned"}
        /\ ~h.called
        /\ failedFile = h.entryFile
        /\ results = h.entryResults
        /\ h.entryTier = "rfc_entry" => ret = FALSE

C10_Witness ==
    /\ EmptyCall
    /\ pc = "returned"
    /\ h.directCalls = 2
    /\ h.entryFile = AbsentFile

\* C11: when some units failed every attempt, process() still runs the writer
\* and returns, and translate_file returns the output file as visible with a
\* warning that lists the missing keys.
C11_PartialFailureNotFatal ==
    (InProcess /\ pc = "tf_returned" /\ Units \ results # {}) =>
        /\ written
        /\ tf_result.visible
        /\ tf_result.message = "warning"
        /\ tf_result.keys = Units \ results

\* C12: the stages of process() are entered in the order clear, extract,
\* translate (primary pass, then recovery tiers), check, write; the writer is
\* not invoked before the validator, and no translation call follows it.
IsPrefix(s, t) == Len(s) <= Len(t) /\ s = SubSeq(t, 1, Len(s))
InTranslateContent ==
    pc \in {"tc_entry", "primary_next", "primary_try", "primary_progress",
            "batch_loop", "rfc_entry", "rfc_next", "rfc_try", "rfc_progress",
            "rfc_return", "line_check", "lines_entry", "lines_next", "lines_try",
            "lines_progress", "tc_return"}

C12_DriverOrdering ==
    InProcess =>
        /\ IsPrefix(h.order, <<"clear", "extract", "translate", "check", "write">>)
        /\ h.rfcCalls > 0 => h.primaryEnded
        /\ written => missing_counts # NotYet
        /\ missing_counts # NotYet => ~InTranslateContent

C12_Witness ==
    /\ InProcess /\ pc = "done"
    /\ h.order = <<"clear", "extract", "translate", "check", "write">>
    /\ h.rfcCalls > 0
    /\ results # {}

\* C13: at the end of a batch-retry round that ran, the Failure Queue holds
\* exactly the units of the round's snapshot that the round did not recover,
\* each once.
C13_BatchRetryRequeue ==
    (pc = "rfc_return" /\ h.roundSnapshot # {}) =>
        /\ CountSet(failedFile.entries) = h.roundSnapshot \ results
        /\ \A u \in Units : QueueCount(u) <= 1

\* C14: when units that failed the primary pass are still untranslated as the
\* batch-retry tier stops, translate_content has run _retranslate_failed_lines
\* exactly once before it returns, and that run attempted each of those units.
C14_Escalation ==
    (InProcess /\ pc = "tc_return" /\ h.primaryEnded) =>
        LET pending == (Units \ results) \cup h.linesAttempted IN
        pending # {} => /\ h.linesCalls = 1
                        /\ Units \ results \subseteq h.linesAttempted

\* C15: failed_status starts true and becomes false only at a batch-retry
\* round that found the Failure Queue empty or absent, and never while units
\* are still unrecorded.
C15_FailedStatus ==
    /\ failed_status = TRUE
    /\ [][(InProcess /\ failed_status /\ ~failed_status') =>
             /\ pc = "rfc_return"
             /\ h.roundSnapshot = {}
             /\ EmptyOrAbsent(failedFile)
             /\ Units \subseteq results]_vars

\* C16: _retranslate_failed_lines called on a non-empty queue keeps the file
\* at [] while it tries the entries, and when it returns the file holds
\* exactly the entries whose attempts all failed, as they were in the
\* snapshot and in its order: the empty list when none failed.
LinesRun ==
    /\ caller = "direct"
    /\ h.entryTier = "lines_entry"
    /\ h.entryFile.kind = "list"
    /\ h.entryFile.entries # <<>>

StillFailed(e) == e.count \in h.linesExhausted

C16_LineByLineResult ==
    LinesRun =>
        /\ pc \in {"lines_next", "lines_try", "lines_progress"} => failedFile = EmptyQueue
        /\ pc = "returned" =>
              /\ failedFile = ListFile(SelectSeq(h.entryFile.entries, StillFailed))
              /\ h.linesExhausted = CountSet(h.entryFile.entries) \ results
              /\ h.linesAttempted = CountSet(h.entryFile.entries)

C16_Witness ==
    /\ LinesRun
    /\ pc = "returned"
    /\ Len(failedFile.entries) = 1
    /\ Len(h.entryFile.entries) = 3
    /\ failedFile.entries[1] = h.entryFile.entries[2]

C18_ContextOnlyOnSuccess ==
    [][previous_text' # previous_text =>
          /\ h'.attempts = h.attempts + 1
          /\ h'.okAt = h'.attempts
          /\ translated_text'.kind = "ok"]_vars

C18_Witness ==
    /\ pc = "rfc_try"
    /\ h.attempts = 1
    /\ h.okAt = 0
    /\ Len(previous_text) = 3

\* C19: the Context Window never holds more than 3 lines.
C19_ContextSize == Len(previous_text) <= 3

C19_Witness ==
    /\ Len(previous_text) = 3
    /\ h.tier = "batch"
    /\ translated_text.n = MaxLines

\* C20: when both attempts on a segment are exhausted and a text is appended
\* to the continuity log, it is the text an attempt on that same segment
\* returned, and the segment's units are not recorded by it.
C20_BestEffortText ==
    (pc \in {"primary_progress", "rfc_progress"} /\ h.okAt = 0
       /\ Truthy(last_valid_translated_text)) =>
        /\ combined_previous_texts = last_valid_translated_text
        /\ last_valid_translated_text.seg = Counts(segment)
        /\ CountSet(segment) \cap results = {}

\* C21: in the primary pass progress_callback is invoked exactly once for
\* each yielded segment, with that segment's progress fraction, after its
\* last attempt and before anything else is done: not while the segment is
\* being attempted, and once when its attempts are over.
C21_ProgressReporting ==
    (InProcess /\ h.tier = "primary" /\ segment # <<>>) =>
        IF pc \in {"primary_try", "primary_progress"}
          THEN h.reports = 0
          ELSE /\ h.reports = 1
               /\ h.reportedProgress = SegmentProgress(src, stream)

\* C22: every run of translate_content ends, and the translate_text calls
\* made for one unit over the run are at most 2 in the primary pass, 2 in
\* each of at most 3 batch-retry rounds and 2 in the line-by-line tier.
CallsBound == MaxAttempts + MaxRounds * MaxAttempts + MaxAttempts
TranslateContentOver == pc \in {"tc_return", "raised", "done", "tf_returned"}

C22_Termination ==
    /\ InProcess => <>TranslateContentOver
    /\ [](\A u \in DOMAIN h.calls : h.calls[u] <= CallsBound)

C22_Witness ==
    /\ InProcess
    /\ pc = "tc_return"
    /\ h.rfcCalls > 1
    /\ \E u \in DOMAIN h.calls : h.calls[u] = 2 * MaxAttempts

====
